---- MODULE Spec2Model ----
(***************************************************************************)
(* Model of tech_test_qa_chloe.py: a script that declares two expectation  *)
(* suites (users, trades) with validators bound to a live Postgres data    *)
(* source, extracts the users hashes for the cross-table checks of trades, *)
(* saves the suites, builds one checkpoint per table and runs them.        *)
(*                                                                         *)
(* A cell of a table is <<>> (SQL NULL / Python None) or <<v>>.  A text    *)
(* value is a sequence of one-character strings, a number or a timestamp   *)
(* is an integer.                                                          *)
(***************************************************************************)
EXTENDS Integers, Sequences, FiniteSets, TLC

VARIABLES db, changes, pc, fault, undelivered, validators, store,
          head_server, head_login, users_server_hashes, users_login_hashes,
          bound, checkpoints, active, cp_batch, validation_results,
          action_log, docs_opened

vars == <<db, changes, pc, fault, undelivered, validators, store,
          head_server, head_login, users_server_hashes, users_login_hashes,
          bound, checkpoints, active, cp_batch, validation_results,
          action_log, docs_opened>>

(* ---------------------------- bounds ----------------------------------- *)
MaxUsers == 2
MaxTrades == 2
MaxChanges == 1

(* ---------------------------- values ----------------------------------- *)
None == <<>>

Tables == {"users", "trades"}

HexUpper == {"A", "B", "C", "D", "E", "F",
             "0", "1", "2", "3", "4", "5", "6", "7", "8", "9"}

(* [A-Za-z0-9] over the characters that occur in the rows below.           *)
AlphaNum == HexUpper \cup {"U", "S", "H", "c", "g", "u", "s", "d"}

Range(s) == {s[i] : i \in 1..Len(s)}

(* Rows the users table is populated from: a valid row and a row of nulls. *)
UserRows ==
  { [login_hash |-> << <<"A", "1">> >>, server_hash |-> << <<"F", "0">> >>,
     country_hash |-> << <<"1", "0">> >>, currency |-> << <<"U", "S", "D">> >>,
     enable |-> <<1>>],
    [login_hash |-> None, server_hash |-> None, country_hash |-> None,
     currency |-> None, enable |-> None] }

(* Rows the trades table is populated from: a valid row, a row breaking    *)
(* every rule (unknown server, close before open), a row of nulls, a row   *)
(* with close_time = open_time.                                            *)
TradeRows ==
  { [login_hash |-> << <<"A", "1">> >>, symbol |-> << <<"U", "S", "D">> >>,
     contractsize |-> <<1>>, open_time |-> <<1>>, close_time |-> <<2>>,
     volume |-> <<0>>, digits |-> <<10>>, cmd |-> <<0>>,
     ticket_hash |-> << <<"C", "3">> >>, server_hash |-> << <<"F", "0">> >>],
    [login_hash |-> << <<"B", "2">> >>, symbol |-> << <<"U", ",", "C">> >>,
     contractsize |-> None, open_time |-> <<2>>, close_time |-> <<1>>,
     volume |-> <<-1>>, digits |-> <<11>>, cmd |-> <<2>>,
     ticket_hash |-> << <<"c">> >>, server_hash |-> << <<"F", "9">> >>],
    [login_hash |-> None, symbol |-> None, contractsize |-> None,
     open_time |-> None, close_time |-> None, volume |-> None,
     digits |-> None, cmd |-> None, ticket_hash |-> None,
     server_hash |-> None],
    [login_hash |-> << <<"A", "1">> >>, symbol |-> << <<"U", "S", "D">> >>,
     contractsize |-> <<1>>, open_time |-> <<1>>, close_time |-> <<1>>,
     volume |-> <<0>>, digits |-> <<0>>, cmd |-> <<1>>,
     ticket_hash |-> << <<"C", "3">> >>, server_hash |-> << <<"F", "0">> >>] }

RowsOf(t) == IF t = "users" THEN UserRows ELSE TradeRows

MaxRows(t) == IF t = "users" THEN MaxUsers ELSE MaxTrades

SeqsUpTo(S, n) == UNION {[1..k -> S] : k \in 0..n}

(* --------------------- the declared script ----------------------------- *)
Txt(a, b, c) == << <<a, b, c>> >>

(* Statements of main() from the first table asset to open_data_docs, in   *)
(* source order.  ref names the Python list an expectation's value_set is  *)
(* read from when the statement executes ("" for a literal).               *)
Expect(t, type, kwargs) ==
  [op |-> "expect", table |-> t, type |-> type, kwargs |-> kwargs, ref |-> ""]

ExpectRef(t, col, var) ==
  [op |-> "expect", table |-> t, type |-> "in_set",
   kwargs |-> [column |-> col], ref |-> var]

UsersExpectations ==
  << Expect("users", "not_null", [column |-> "login_hash"]),
     Expect("users", "not_null", [column |-> "server_hash"]),
     Expect("users", "row_count_between", [min_value |-> <<1>>, max_value |-> None]),
     Expect("users", "match_regex", [column |-> "login_hash", regex |-> HexUpper]),
     Expect("users", "not_null", [column |-> "country_hash"]),
     Expect("users", "match_regex", [column |-> "country_hash", regex |-> HexUpper]),
     Expect("users", "not_null", [column |-> "currency"]),
     Expect("users", "in_set", [column |-> "currency",
            value_set |-> <<Txt("A", "U", "D"), Txt("E", "U", "R"),
                            Txt("N", "Z", "D"), Txt("U", "S", "D")>>]),
     Expect("users", "not_null", [column |-> "enable"]),
     Expect("users", "in_set", [column |-> "enable", value_set |-> << <<0>>, <<1>> >>]) >>

TradesConstantExpectations ==
  << Expect("trades", "not_null", [column |-> "login_hash"]),
     Expect("trades", "not_null", [column |-> "symbol"]),
     Expect("trades", "not_null", [column |-> "contractsize"]),
     Expect("trades", "not_null", [column |-> "open_time"]),
     Expect("trades", "not_null", [column |-> "close_time"]),
     Expect("trades", "match_regex", [column |-> "symbol", regex |-> AlphaNum]),
     Expect("trades", "between", [column |-> "volume", min_value |-> <<0>>, max_value |-> None]),
     Expect("trades", "between", [column |-> "digits", min_value |-> <<0>>, max_value |-> <<10>>]),
     Expect("trades", "in_set", [column |-> "cmd", value_set |-> << <<0>>, <<1>> >>]),
     Expect("trades", "not_null", [column |-> "ticket_hash"]),
     Expect("trades", "match_regex", [column |-> "ticket_hash", regex |-> HexUpper]),
     Expect("trades", "pair_a_greater_than_b",
            [column_A |-> "close_time", column_B |-> "open_time"]) >>

TradesReferenceExpectations ==
  << ExpectRef("trades", "server_hash", "users_server_hashes"),
     ExpectRef("trades", "login_hash", "users_login_hashes") >>

ExtractStatements ==
  << [op |-> "head", table |-> "users", column |-> "server_hash",
      var |-> "users_server_hashes"],
     [op |-> "head", table |-> "users", column |-> "login_hash",
      var |-> "users_login_hashes"] >>

ActionList == <<"store_validation_result", "update_data_docs">>

ProgramReferencesFirst ==
  << [op |-> "get_validator", table |-> "users"] >>
  \o UsersExpectations
  \o << [op |-> "save", table |-> "users"],
        [op |-> "get_validator", table |-> "trades"] >>
  \o TradesConstantExpectations \o TradesReferenceExpectations
  \o ExtractStatements
  \o << [op |-> "save", table |-> "trades"],
        [op |-> "checkpoint", table |-> "users"],
        [op |-> "checkpoint", table |-> "trades"],
        [op |-> "run", table |-> "users"],
        [op |-> "run", table |-> "trades"],
        [op |-> "open_data_docs"] >>

Program ==
  << [op |-> "get_validator", table |-> "users"] >>
  \o UsersExpectations \o ExtractStatements
  \o << [op |-> "save", table |-> "users"],
        [op |-> "get_validator", table |-> "trades"] >>
  \o TradesConstantExpectations \o TradesReferenceExpectations
  \o << [op |-> "save", table |-> "trades"],
        [op |-> "checkpoint", table |-> "users"],
        [op |-> "checkpoint", table |-> "trades"],
        [op |-> "run", table |-> "users"],
        [op |-> "run", table |-> "trades"],
        [op |-> "open_data_docs"] >>

Done == Len(Program) + 1

Running == fault = "none" /\ pc < Done

Stmt == Program[pc]

(* ------------------- pandas: head(...)[col].drop_duplicates() ---------- *)
ColumnOf(batch, col) == [i \in 1..Len(batch) |-> batch[i][col]]

KeepAll(s) == s

(* Series.drop_duplicates(): keeps the first occurrence of every value;    *)
(* a missing value is a value like any other and is kept once.             *)
RECURSIVE DropDuplicates(_)
DropDuplicates(s) ==
  IF s = <<>> THEN <<>>
  ELSE LET front == DropDuplicates(SubSeq(s, 1, Len(s) - 1))
           last == s[Len(s)]
       IN IF last \in Range(front) THEN front ELSE Append(front, last)

(* ------------------- the expectations' row conditions ------------------ *)
MatchesRegex(text, class) ==
  Len(text) > 0 /\ \A i \in 1..Len(text) : text[i] \in class

RegexUnexpected(cell, class) == cell # None /\ ~MatchesRegex(cell[1], class)

InSetUnexpectedStrict(cell, value_set) == cell \notin Range(value_set)

(* expect_column_values_to_be_in_set: a column map expectation, missing    *)
(* values are filtered out before the condition is applied.                *)
InSetUnexpected(cell, value_set) ==
  cell # None /\ cell \notin Range(value_set)

BetweenUnexpected(cell, min_value, max_value) ==
  /\ cell # None
  /\ \/ (min_value # None /\ cell[1] < min_value[1])
     \/ (max_value # None /\ cell[1] > max_value[1])

PairUnexpectedOrEqual(a, b, one_missing) ==
  IF a = None /\ b = None THEN FALSE
  ELSE IF a = None \/ b = None THEN one_missing
  ELSE ~(a[1] >= b[1])

(* expect_column_pair_values_a_to_be_greater_than_b with its defaults      *)
(* or_equal=None, ignore_row_if="both_values_are_missing".  Whether a row  *)
(* with exactly one missing side counts depends on how the execution       *)
(* engine evaluates NOT (a > b) on a missing operand: one_missing.         *)
PairUnexpected(a, b, one_missing) ==
  IF a = None /\ b = None THEN FALSE
  ELSE IF a = None \/ b = None THEN one_missing
  ELSE ~(a[1] > b[1])

RowUnexpected(type, kwargs, row, one_missing) ==
  CASE type = "not_null" -> row[kwargs.column] = None
    [] type = "match_regex" -> RegexUnexpected(row[kwargs.column], kwargs.regex)
    [] type = "in_set" -> InSetUnexpected(row[kwargs.column], kwargs.value_set)
    [] type = "between" ->
         BetweenUnexpected(row[kwargs.column], kwargs.min_value, kwargs.max_value)
    [] type = "pair_a_greater_than_b" ->
         PairUnexpected(row[kwargs.column_A], row[kwargs.column_B], one_missing)

RECURSIVE UnexpectedCount(_, _, _, _)
UnexpectedCount(type, kwargs, batch, one_missing) ==
  IF batch = <<>> THEN 0
  ELSE UnexpectedCount(type, kwargs, Tail(batch), one_missing)
       + (IF RowUnexpected(type, kwargs, Head(batch), one_missing) THEN 1 ELSE 0)

RowCountInRange(n, min_value, max_value) ==
  /\ (min_value = None \/ n >= min_value[1])
  /\ (max_value = None \/ n <= max_value[1])

SuccessAtMostOne(unexpected_count) == unexpected_count <= 1

MapSuccess(unexpected_count) == unexpected_count = 0

(* One expectation against one batch: the expectation validation result.  *)
Evaluate(config, batch, one_missing) ==
  IF config.type = "row_count_between"
  THEN LET ok == RowCountInRange(Len(batch), config.kwargs.min_value,
                                 config.kwargs.max_value)
       IN [expectation_config |-> config, success |-> ok,
           element_count |-> 1, unexpected_count |-> IF ok THEN 0 ELSE 1]
  ELSE LET n == UnexpectedCount(config.type, config.kwargs, batch, one_missing)
       IN [expectation_config |-> config, success |-> MapSuccess(n),
           element_count |-> Len(batch), unexpected_count |-> n]

(* ------------------- suites -------------------------------------------- *)
DomainKey(config) ==
  IF "column" \in DOMAIN config.kwargs THEN <<config.kwargs.column>>
  ELSE IF "column_A" \in DOMAIN config.kwargs
       THEN <<config.kwargs.column_A, config.kwargs.column_B>>
       ELSE <<>>

SameExpectation(c1, c2) ==
  c1.type = c2.type /\ DomainKey(c1) = DomainKey(c2)

(* validator.expect_*: the expectation is added to the validator's suite,  *)
(* replacing an expectation of the same type on the same domain.           *)
AddExpectation(suite, entry) ==
  IF \E i \in 1..Len(suite) : SameExpectation(suite[i].config, entry.config)
  THEN [i \in 1..Len(suite) |->
          IF SameExpectation(suite[i].config, entry.config) THEN entry
          ELSE suite[i]]
  ELSE Append(suite, entry)

(* save_expectation_suite(discard_failed_expectations=False)               *)
SaveExpectationSuite(suite) == suite

ConfigsOf(suite) == [i \in 1..Len(suite) |-> suite[i].config]

GroupColumn(config) ==
  IF "column" \in DOMAIN config.kwargs THEN config.kwargs.column
  ELSE "_nocolumn"

RECURSIVE GroupFrom(_, _)
GroupFrom(configs, i) ==
  IF i > Len(configs) THEN <<>>
  ELSE LET col == GroupColumn(configs[i])
           first == \A j \in 1..(i - 1) : GroupColumn(configs[j]) # col
           SameColumn(c) == GroupColumn(c) = col
       IN (IF first THEN SelectSeq(configs, SameColumn) ELSE <<>>)
          \o GroupFrom(configs, i + 1)

(* Validator.validate groups the suite's expectations by column (columns   *)
(* in order of first use, expectations without a column under one key)     *)
(* before it evaluates them.                                               *)
ExpectationsToEvaluate(configs) == GroupFrom(configs, 1)

RECURSIVE EvaluateUntilFailure(_, _, _)
EvaluateUntilFailure(configs, batch, one_missing) ==
  IF configs = <<>> THEN <<>>
  ELSE LET r == Evaluate(Head(configs), batch, one_missing)
       IN IF r.success
          THEN <<r>> \o EvaluateUntilFailure(Tail(configs), batch, one_missing)
          ELSE <<r>>

RECURSIVE EvaluateAll(_, _, _)
EvaluateAll(configs, batch, one_missing) ==
  IF configs = <<>> THEN <<>>
  ELSE <<Evaluate(Head(configs), batch, one_missing)>>
       \o EvaluateAll(Tail(configs), batch, one_missing)

AllSuccess(results) ==
  \A i \in 1..Len(results) : results[i].success

(* The expectation suite validation result of one table.                   *)
Validate(t, configs, batch, one_missing) ==
  LET results == EvaluateAll(ExpectationsToEvaluate(configs), batch, one_missing)
  IN [table |-> t, results |-> results, success |-> AllSuccess(results)]

(* ------------------- the data source ----------------------------------- *)
FetchSwallowingFault(rows, ok) ==
  [raised |-> FALSE, batch |-> IF ok THEN rows ELSE <<>>]

(* A read of a table of the live database: the rows as they are now, or    *)
(* an exception when the data source does not deliver.                     *)
Fetch(rows, ok) == [raised |-> ~ok, batch |-> rows]

NoFunction == [t \in {} |-> <<>>]

Extend(f, t, v) == [x \in DOMAIN f \cup {t} |-> IF x = t THEN v ELSE f[x]]

Lookup(var) ==
  IF var = "users_server_hashes" THEN users_server_hashes
  ELSE users_login_hashes

RaiseOnFailure(result) == IF result.success THEN "returned" ELSE "raised"

(* Checkpoint.run() returns the result whatever its success.              *)
RunOutcome(result) == "returned"

ActionsOnSuccess(result) == IF result.success THEN ActionList ELSE <<>>

(* The action_list of a checkpoint is run on every validation result.      *)
ActionsToRun(result) == ActionList

(* ------------------- state machine ------------------------------------- *)
Init ==
  /\ db \in [users : SeqsUpTo(UserRows, MaxUsers),
             trades : SeqsUpTo(TradeRows, MaxTrades)]
  /\ changes = 0
  /\ pc = 1
  /\ fault = "none"
  /\ undelivered = {}
  /\ validators = NoFunction
  /\ store = NoFunction
  /\ head_server = <<>>
  /\ head_login = <<>>
  /\ users_server_hashes = <<>>
  /\ users_login_hashes = <<>>
  /\ bound = {}
  /\ checkpoints = {}
  /\ active = <<>>
  /\ cp_batch = NoFunction
  /\ validation_results = <<>>
  /\ action_log = <<>>
  /\ docs_opened = FALSE

(* Another client of the database inserts or deletes a row of a table.     *)
(* The script observes a change through its next read whose rows it keeps  *)
(* (head, checkpoint run); the change is taken right before that read.     *)
DbChange ==
  /\ Running
  /\ Stmt.op \in {"head", "run"}
  /\ active = <<>>
  /\ changes < MaxChanges
  /\ changes' = changes + 1
  /\ LET t == Stmt.table
     IN \/ /\ Len(db[t]) < MaxRows(t)
           /\ \E r \in RowsOf(t) : db' = [db EXCEPT ![t] = Append(@, r)]
        \/ /\ Len(db[t]) > 0
           /\ db' = [db EXCEPT ![t] = SubSeq(@, 1, Len(@) - 1)]
  /\ UNCHANGED <<pc, fault, undelivered, validators, store, head_server,
                 head_login, users_server_hashes, users_login_hashes, bound,
                 checkpoints, active, cp_batch, validation_results,
                 action_log, docs_opened>>

(* add_table_asset, add_or_update_expectation_suite, get_validator         *)
GetValidator ==
  /\ Running
  /\ Stmt.op = "get_validator"
  /\ \E ok \in BOOLEAN :
       LET t == Stmt.table
           f == Fetch(db[t], ok)
       IN /\ undelivered' = IF ok THEN undelivered ELSE undelivered \cup {t}
          /\ IF f.raised
             THEN /\ fault' = "InfrastructureFault"
                  /\ UNCHANGED <<pc, validators, store>>
             ELSE /\ validators' = Extend(validators, t, <<>>)
                  /\ store' = Extend(store, t, <<>>)
                  /\ pc' = pc + 1
                  /\ UNCHANGED fault
  /\ UNCHANGED <<db, changes, head_server, head_login, users_server_hashes,
                 users_login_hashes, bound, checkpoints, active, cp_batch,
                 validation_results, action_log, docs_opened>>

(* validator.expect_*(...): evaluated at once against the table and added  *)
(* to the validator's suite; the script drops the returned result.         *)
ExpectCall ==
  /\ Running
  /\ Stmt.op = "expect"
  /\ \E ok \in BOOLEAN :
       LET t == Stmt.table
           f == Fetch(db[t], ok)
       IN IF Stmt.ref # "" /\ Stmt.ref \notin bound
          THEN /\ fault' = "NameError"
               /\ UNCHANGED <<pc, validators, undelivered>>
          ELSE /\ undelivered' = IF ok THEN undelivered ELSE undelivered \cup {t}
               /\ IF f.raised
                  THEN /\ fault' = "InfrastructureFault"
                       /\ UNCHANGED <<pc, validators>>
                  ELSE LET kwargs == IF Stmt.ref = "" THEN Stmt.kwargs
                                     ELSE [column |-> Stmt.kwargs.column,
                                           value_set |-> Lookup(Stmt.ref)]
                           config == [type |-> Stmt.type, kwargs |-> kwargs]
                           entry == [config |-> config]
                       IN /\ validators' =
                               [validators EXCEPT ![t] = AddExpectation(@, entry)]
                          /\ pc' = pc + 1
                          /\ UNCHANGED fault
  /\ UNCHANGED <<db, changes, store, head_server, head_login,
                 users_server_hashes, users_login_hashes, bound, checkpoints,
                 active, cp_batch, validation_results, action_log, docs_opened>>

(* users_validator.head(fetch_all=True)[column].drop_duplicates().tolist() *)
HeadFetchAll ==
  /\ Running
  /\ Stmt.op = "head"
  /\ \E ok \in BOOLEAN :
       LET t == Stmt.table
           f == Fetch(db[t], ok)
           values == DropDuplicates(ColumnOf(f.batch, Stmt.column))
       IN /\ undelivered' = IF ok THEN undelivered ELSE undelivered \cup {t}
          /\ IF f.raised
             THEN /\ fault' = "InfrastructureFault"
                  /\ UNCHANGED <<pc, head_server, head_login, bound,
                                 users_server_hashes, users_login_hashes>>
             ELSE /\ pc' = pc + 1
                  /\ bound' = bound \cup {Stmt.var}
                  /\ UNCHANGED fault
                  /\ IF Stmt.var = "users_server_hashes"
                     THEN /\ users_server_hashes' = values
                          /\ head_server' = f.batch
                          /\ UNCHANGED <<users_login_hashes, head_login>>
                     ELSE /\ users_login_hashes' = values
                          /\ head_login' = f.batch
                          /\ UNCHANGED <<users_server_hashes, head_server>>
  /\ UNCHANGED <<db, changes, validators, store, checkpoints, active,
                 cp_batch, validation_results, action_log, docs_opened>>

(* validator.save_expectation_suite(discard_failed_expectations=False)     *)
SaveSuite ==
  /\ Running
  /\ Stmt.op = "save"
  /\ store' = [store EXCEPT ![Stmt.table] =
                 ConfigsOf(SaveExpectationSuite(validators[Stmt.table]))]
  /\ pc' = pc + 1
  /\ UNCHANGED <<db, changes, fault, undelivered, validators, head_server,
                 head_login, users_server_hashes, users_login_hashes, bound,
                 checkpoints, active, cp_batch, validation_results,
                 action_log, docs_opened>>

(* gx.checkpoint.Checkpoint(...)                                           *)
BuildCheckpoint ==
  /\ Running
  /\ Stmt.op = "checkpoint"
  /\ checkpoints' = checkpoints \cup {Stmt.table}
  /\ pc' = pc + 1
  /\ UNCHANGED <<db, changes, fault, undelivered, validators, store,
                 head_server, head_login, users_server_hashes,
                 users_login_hashes, bound, active, cp_batch,
                 validation_results, action_log, docs_opened>>

(* checkpoint.run(), first part: the batch of the checkpoint's batch       *)
(* request is obtained and validated against the stored suite.             *)
CheckpointValidate ==
  /\ Running
  /\ Stmt.op = "run"
  /\ active = <<>>
  /\ Stmt.table \in checkpoints
  /\ \E ok \in BOOLEAN, one_missing \in BOOLEAN :
       LET t == Stmt.table
           f == Fetch(db[t], ok)
           result == Validate(t, store[t], f.batch, one_missing)
       IN /\ undelivered' = IF ok THEN undelivered ELSE undelivered \cup {t}
          /\ IF f.raised
             THEN /\ fault' = "InfrastructureFault"
                  /\ UNCHANGED <<pc, active, cp_batch, validation_results>>
             ELSE /\ cp_batch' = Extend(cp_batch, t, f.batch)
                  /\ validation_results' = Append(validation_results, result)
                  /\ IF RunOutcome(result) = "raised"
                     THEN /\ fault' = "ValidationFailure"
                          /\ UNCHANGED <<pc, active>>
                     ELSE /\ UNCHANGED fault
                          /\ IF ActionsToRun(result) = <<>>
                             THEN pc' = pc + 1 /\ UNCHANGED active
                             ELSE /\ active' = <<[table |-> t,
                                                  actions |-> ActionsToRun(result)]>>
                                  /\ UNCHANGED pc
  /\ UNCHANGED <<db, changes, validators, store, head_server, head_login,
                 users_server_hashes, users_login_hashes, bound, checkpoints,
                 action_log, docs_opened>>

(* checkpoint.run(), second part: the next action of the action list is    *)
(* invoked on the validation result; run() returns after the last one.     *)
CheckpointAction ==
  /\ Running
  /\ active # <<>>
  /\ LET a == active[1]
     IN /\ action_log' = Append(action_log,
                                [action |-> Head(a.actions), table |-> a.table,
                                 results |-> Len(validation_results)])
        /\ IF Len(a.actions) = 1
           THEN active' = <<>> /\ pc' = pc + 1
           ELSE /\ active' = <<[a EXCEPT !.actions = Tail(@)]>>
                /\ UNCHANGED pc
  /\ UNCHANGED <<db, changes, fault, undelivered, validators, store,
                 head_server, head_login, users_server_hashes,
                 users_login_hashes, bound, checkpoints, cp_batch,
                 validation_results, docs_opened>>

(* context.open_data_docs()                                                *)
OpenDataDocs ==
  /\ Running
  /\ Stmt.op = "open_data_docs"
  /\ docs_opened' = TRUE
  /\ pc' = pc + 1
  /\ UNCHANGED <<db, changes, fault, undelivered, validators, store,
                 head_server, head_login, users_server_hashes,
                 users_login_hashes, bound, checkpoints, active, cp_batch,
                 validation_results, action_log>>

Next ==
  \/ DbChange
  \/ GetValidator
  \/ ExpectCall
  \/ HeadFetchAll
  \/ SaveSuite
  \/ BuildCheckpoint
  \/ CheckpointValidate
  \/ CheckpointAction
  \/ OpenDataDocs

Spec == Init /\ [][Next]_vars

(* ------------------- properties ---------------------------------------- *)
ExpKey(c) == <<c.type, DomainKey(c)>>

IsExpectOf(t, s) == s.op = "expect" /\ s.table = t

DeclaredKeys(t) ==
  LET OfTable(s) == IsExpectOf(t, s)
      decl == SelectSeq(Program, OfTable)
  IN [i \in 1..Len(decl) |-> ExpKey(decl[i])]

ResultKeys(r) == [i \in 1..Len(r.results) |-> ExpKey(r.results[i].expectation_config)]

SuiteResults == Range(validation_results)

IsCrossTable(config, col) ==
  config.type = "in_set" /\ config.kwargs.column = col

BuiltWith(config, col, var, values, frame) ==
  IsCrossTable(config, col) =>
    /\ var \in bound
    /\ config.kwargs.value_set = values
    /\ values = DropDuplicates(ColumnOf(frame, col))

BuiltAfterExtraction(config) ==
  /\ BuiltWith(config, "server_hash", "users_server_hashes",
               users_server_hashes, head_server)
  /\ BuiltWith(config, "login_hash", "users_login_hashes",
               users_login_hashes, head_login)

(* C1: every cross-table in_set expectation of trades (server_hash,        *)
(* login_hash) is built after the users rows were fetched and the list of  *)
(* the referenced column extracted from them: it carries that list, in the *)
(* validator's suite, in the saved suite and in the suite result, and no   *)
(* expectation is ever requested with a list that does not exist yet.      *)
C1_ReferenceSetsExtractedFirst ==
  /\ fault # "NameError"
  /\ "trades" \in DOMAIN validators =>
       \A i \in 1..Len(validators["trades"]) :
          BuiltAfterExtraction(validators["trades"][i].config)
  /\ "trades" \in DOMAIN store =>
       \A i \in 1..Len(store["trades"]) : BuiltAfterExtraction(store["trades"][i])
  /\ \A r \in SuiteResults :
       r.table = "trades" =>
         \A i \in 1..Len(r.results) :
            BuiltAfterExtraction(r.results[i].expectation_config)

C1_Witness ==
  \E r \in SuiteResults :
    /\ r.table = "trades"
    /\ \E i \in 1..Len(r.results) :
         /\ IsCrossTable(r.results[i].expectation_config, "server_hash")
         /\ Len(r.results[i].expectation_config.kwargs.value_set) = 2

(* C2 as stated: the suite result holds the n expectation results in       *)
(* declaration order.                                                      *)
C2_DeclarationOrder ==
  \A r \in SuiteResults : ResultKeys(r) = DeclaredKeys(r.table)

(* C2 amended: every declared expectation of the suite is evaluated        *)
(* whatever the outcome of the others: the suite result holds exactly n    *)
(* results, one for each of the n declared expectations, and the results   *)
(* of one column keep their declaration order.                             *)
C2_EveryExpectationEvaluated ==
  \A r \in SuiteResults :
    LET decl == DeclaredKeys(r.table)
        res == ResultKeys(r)
        Pos(k) == CHOOSE j \in 1..Len(res) : res[j] = k
    IN /\ Len(res) = Len(decl)
       /\ \A i \in 1..Len(decl) :
            Cardinality({j \in 1..Len(res) : res[j] = decl[i]}) = 1
       /\ \A i \in 1..Len(decl), j \in 1..Len(decl) :
            (i < j /\ decl[i][2] = decl[j][2]) => Pos(decl[i]) < Pos(decl[j])

C2_Witness ==
  \E r \in SuiteResults :
    /\ r.table = "users"
    /\ Len(r.results) = 10
    /\ ~r.results[1].success
    /\ r.results[10].success

(* C3: a suite result that failed never stops the run: no exception other  *)
(* than an infrastructure fault is raised, and a run that reaches its end  *)
(* has appended the users and then the trades suite result, the trades     *)
(* rows having been fetched and validated whatever the users result.       *)
C3_FailureDoesNotStop ==
  /\ fault \in {"none", "InfrastructureFault"}
  /\ pc = Done =>
       /\ fault = "none"
       /\ Len(validation_results) = 2
       /\ validation_results[1].table = "users"
       /\ validation_results[2].table = "trades"
       /\ "trades" \in DOMAIN cp_batch

C3_Witness ==
  /\ pc = Done
  /\ Len(validation_results) = 2
  /\ ~validation_results[1].success
  /\ validation_results[2].success

ActionCount(a, t) ==
  Cardinality({i \in 1..Len(action_log) :
                 action_log[i].action = a /\ action_log[i].table = t})

RunIndex(t) == CHOOSE i \in 1..Len(Program) : Program[i].op = "run" /\ Program[i].table = t

(* C4 as stated: every action is invoked once per run of the script, and   *)
(* only after the suite results of all tables have been appended.          *)
C4_OncePerRunAfterAllTables ==
  /\ \A i \in 1..Len(action_log) : action_log[i].results = Cardinality(Tables)
  /\ pc = Done =>
       \A k \in 1..Len(ActionList) :
          Cardinality({i \in 1..Len(action_log) :
                         action_log[i].action = ActionList[k]}) = 1

(* C4 amended: each configured action is invoked exactly once per          *)
(* checkpoint (users_checkpoint, trades_checkpoint), after the suite       *)
(* result of that checkpoint's table was appended and whether it passed or *)
(* failed; the actions of users_checkpoint run before trades is validated. *)
C4_OncePerCheckpoint ==
  /\ \A i \in 1..Len(action_log) :
       /\ action_log[i].results >= 1
       /\ validation_results[action_log[i].results].table = action_log[i].table
  /\ \A t \in Tables, k \in 1..Len(ActionList) :
       /\ ActionCount(ActionList[k], t) <= 1
       /\ (pc > RunIndex(t) /\ fault = "none") => ActionCount(ActionList[k], t) = 1

C4_Witness ==
  /\ pc = Done
  /\ Len(action_log) = 4
  /\ ~validation_results[1].success
  /\ ~validation_results[2].success

LaterTables(t) == IF t = "users" THEN {"users", "trades"} ELSE {"trades"}

Distinct(s) == Cardinality(Range(s)) = Len(s)

(* C6 as stated: the extracted list is the set of distinct non-null values *)
(* of the column.                                                          *)
C6_DistinctNonNull ==
  /\ "users_server_hashes" \in bound =>
       /\ Distinct(users_server_hashes)
       /\ Range(users_server_hashes) =
            Range(ColumnOf(head_server, "server_hash")) \ {None}
  /\ "users_login_hashes" \in bound =>
       /\ Distinct(users_login_hashes)
       /\ Range(users_login_hashes) =
            Range(ColumnOf(head_login, "login_hash")) \ {None}

(* C6 amended: the extracted list holds every value that occurs in the     *)
(* column over all fetched rows, each exactly once, and nothing else; a    *)
(* missing value is kept like any other value, so None is a member exactly *)
(* when the column has a null.                                             *)
C6_DistinctValues ==
  /\ "users_server_hashes" \in bound =>
       /\ Distinct(users_server_hashes)
       /\ Range(users_server_hashes) = Range(ColumnOf(head_server, "server_hash"))
  /\ "users_login_hashes" \in bound =>
       /\ Distinct(users_login_hashes)
       /\ Range(users_login_hashes) = Range(ColumnOf(head_login, "login_hash"))

C6_Witness ==
  /\ "users_server_hashes" \in bound
  /\ Len(head_server) = 2
  /\ Len(users_server_hashes) = 1

InSetResults(P(_, _, _)) ==
  \A r \in SuiteResults :
    \A i \in 1..Len(r.results) :
      LET c == r.results[i].expectation_config
      IN c.type = "in_set" =>
           P(r.results[i].unexpected_count,
             ColumnOf(cp_batch[r.table], c.kwargs.column), c.kwargs.value_set)

CountNullOrNotMember(n, cells, value_set) ==
  n = Cardinality({j \in 1..Len(cells) :
                     cells[j] = None \/ cells[j] \notin Range(value_set)})

CountNotMember(n, cells, value_set) ==
  n = Cardinality({j \in 1..Len(cells) :
                     cells[j] # None /\ cells[j] \notin Range(value_set)})

PairResults(P(_, _, _)) ==
  \A r \in SuiteResults :
    \A i \in 1..Len(r.results) :
      LET c == r.results[i].expectation_config
      IN c.type = "pair_a_greater_than_b" =>
           P(r.results[i].unexpected_count,
             ColumnOf(cp_batch[r.table], c.kwargs.column_A),
             ColumnOf(cp_batch[r.table], c.kwargs.column_B))

BothPresent(a, b) == a # None /\ b # None

OneMissing(a, b) == (a = None) # (b = None)

CountNotGreaterOrNull(n, as, bs) ==
  n = Cardinality({j \in 1..Len(as) :
                     ~(BothPresent(as[j], bs[j]) /\ as[j][1] > bs[j][1])})

CountNotGreaterBothPresent(n, as, bs) ==
  LET bad == Cardinality({j \in 1..Len(as) :
                            BothPresent(as[j], bs[j]) /\ ~(as[j][1] > bs[j][1])})
      half == Cardinality({j \in 1..Len(as) : OneMissing(as[j], bs[j])})
  IN bad <= n /\ n <= bad + half

C10_SingleUsersSnapshot ==
  /\ {"users_server_hashes", "users_login_hashes"} \subseteq bound =>
       head_server = head_login
  /\ ("users" \in DOMAIN cp_batch /\ "users_server_hashes" \in bound) =>
       cp_batch["users"] = head_server

====
